---- MODULE Spec2Model ----
(***************************************************************************)
(* Model of amplifier_module_hooks_project_isolation: the session-start    *)
(* hook that resolves the current project, names its storage directory     *)
(* <slug>-<fingerprint>, and maintains metadata.json and index.json.       *)
(*                                                                         *)
(* Strings whose characters matter (names, slugs, timestamps, paths) are   *)
(* sequences of one-character strings.                                     *)
(***************************************************************************)
EXTENDS Integers, Sequences, FiniteSets, TLC

(***************************************************************************)
(* Bounds                                                                  *)
(***************************************************************************)
MaxLen == 3
MaxSec == 0
MaxCalls == 2
MaxDamaged == 1

(***************************************************************************)
(* Characters                                                              *)
(***************************************************************************)
Letters == {"a","b","c","d","e","f","g","h","i","j","k","l","m",
            "n","o","p","q","r","s","t","u","v","w","x","y","z"}
Digits == {"0","1","2","3","4","5","6","7","8","9"}
AlnumChars == Letters \cup Digits
Whitespace == {" ", "\t"}
Hyphen == "-"
CombiningDot == "U+0307"

\* str.lower() on one character; U+0130 lowers to two characters
LowerChar(c) ==
  CASE c = "A" -> <<"a">> [] c = "B" -> <<"b">> [] c = "D" -> <<"d">>
    [] c = "M" -> <<"m">> [] c = "P" -> <<"p">>
    [] c = "U+0130" -> <<"i", CombiningDot>>
    [] OTHER -> <<c>>

RECURSIVE Lower(_)
Lower(s) == IF s = <<>> THEN <<>> ELSE LowerChar(Head(s)) \o Lower(Tail(s))

\* re.sub(r'[set]+', repl, s): every maximal run of characters of set
\* becomes the single character repl
RECURSIVE SubRuns(_, _, _)
SubRuns(s, set, repl) ==
  IF s = <<>> THEN <<>>
  ELSE IF Head(s) \in set
       THEN IF Len(s) > 1 /\ s[2] \in set
            THEN SubRuns(Tail(s), set, repl)
            ELSE <<repl>> \o SubRuns(Tail(s), set, repl)
       ELSE <<Head(s)>> \o SubRuns(Tail(s), set, repl)

\* re.sub(r'[^keep]', '', s)
RemoveOutside(s, keep) == SelectSeq(s, LAMBDA c : c \in keep)

\* str.strip(ch)
RECURSIVE LStrip(_, _)
LStrip(s, ch) == IF s # <<>> /\ Head(s) = ch THEN LStrip(Tail(s), ch) ELSE s
RECURSIVE RStrip(_, _)
RStrip(s, ch) ==
  IF s # <<>> /\ s[Len(s)] = ch THEN RStrip(SubSeq(s, 1, Len(s) - 1), ch) ELSE s
\* faulty variant: lstrip in place of strip
Strip_left_only(s, ch) == LStrip(s, ch)
Strip(s, ch) == RStrip(LStrip(s, ch), ch)

DefaultSlug == <<"d","e","f","a","u","l","t">>

\* the slug before the empty-result fallback
SlugBody(name) ==
  LET s1 == Lower(name)
      s2 == SubRuns(s1, Whitespace \cup {"_"}, Hyphen)
      s3 == RemoveOutside(s2, AlnumChars \cup {Hyphen})
      s4 == SubRuns(s3, {Hyphen}, Hyphen)
  IN  Strip(s4, Hyphen)

_generate_slug(name) ==
  LET slug == SlugBody(name) IN IF slug = <<>> THEN DefaultSlug ELSE slug

\* ^[a-z0-9]+(-[a-z0-9]+)*$
MatchesSlugPattern(s) ==
  /\ s # <<>>
  /\ \A i \in 1..Len(s) : s[i] \in AlnumChars \cup {Hyphen}
  /\ s[1] # Hyphen
  /\ s[Len(s)] # Hyphen
  /\ \A i \in 1..(Len(s) - 1) : ~(s[i] = Hyphen /\ s[i + 1] = Hyphen)

HasAlnum(name) == \E i \in 1..Len(Lower(name)) : Lower(name)[i] \in AlnumChars

(***************************************************************************)
(* Timestamps: datetime.now().isoformat()                                  *)
(***************************************************************************)
\* the clock's values: a second and a microsecond (date, hour and minute
\* are held fixed and left out of the rendered text)
Times == {[sec |-> n, us |-> 0] : n \in 0..MaxSec}
           \cup {[sec |-> 0, us |-> 500000]}

DigitChar(d) ==
  CASE d = 0 -> "0" [] d = 1 -> "1" [] d = 2 -> "2" [] d = 3 -> "3"
    [] d = 4 -> "4" [] d = 5 -> "5" [] d = 6 -> "6" [] d = 7 -> "7"
    [] d = 8 -> "8" [] d = 9 -> "9"

\* n written with exactly w digits (zero padded)
RECURSIVE ZeroPad(_, _)
ZeroPad(n, w) ==
  IF w = 0 THEN <<>> ELSE ZeroPad(n \div 10, w - 1) \o <<DigitChar(n % 10)>>

\* datetime.isoformat(): "SS" when microsecond = 0, else "SS.ffffff"
IsoFormat(t) ==
  IF t.us = 0 THEN ZeroPad(t.sec, 2)
  ELSE ZeroPad(t.sec, 2) \o <<".">> \o ZeroPad(t.us, 6)

\* code point order of the characters of a rendered timestamp
CharOrd(c) ==
  CASE c = "." -> 46 [] c = "0" -> 48 [] c = "1" -> 49 [] c = "2" -> 50
    [] c = "3" -> 51 [] c = "4" -> 52 [] c = "5" -> 53 [] c = "6" -> 54
    [] c = "7" -> 55 [] c = "8" -> 56 [] c = "9" -> 57

\* Python's str.__lt__: lexicographic, a proper prefix is smaller
RECURSIVE StrLess(_, _)
StrLess(a, b) ==
  IF b = <<>> THEN FALSE
  ELSE IF a = <<>> THEN TRUE
  ELSE IF Head(a) = Head(b) THEN StrLess(Tail(a), Tail(b))
  ELSE CharOrd(Head(a)) < CharOrd(Head(b))

\* chronological order of clock values
TimeLeq(t1, t2) == t1.sec < t2.sec \/ (t1.sec = t2.sec /\ t1.us <= t2.us)

\* datetime.fromisoformat, the inverse of IsoFormat on the clock's values
ParseIso(s) == CHOOSE t \in Times : IsoFormat(t) = s

(***************************************************************************)
(* list.sort(key=lambda s: s["timestamp"], reverse=True)                   *)
(***************************************************************************)
\* faulty variant: reverse=True left out, the order is ascending
RECURSIVE InsertDesc_ascending(_, _)
InsertDesc_ascending(sorted, x) ==
  IF sorted = <<>> THEN <<x>>
  ELSE IF StrLess(x.timestamp, Head(sorted).timestamp)
       THEN <<x>> \o sorted
       ELSE <<Head(sorted)>> \o InsertDesc_ascending(Tail(sorted), x)

\* faulty variant: x is placed before the elements whose key equals x's key
\* (the order of sorted(...)[::-1], which reverses ties)
RECURSIVE InsertDesc_before_ties(_, _)
InsertDesc_before_ties(sorted, x) ==
  IF sorted = <<>> THEN <<x>>
  ELSE IF ~StrLess(x.timestamp, Head(sorted).timestamp)
       THEN <<x>> \o sorted
       ELSE <<Head(sorted)>> \o InsertDesc_before_ties(Tail(sorted), x)

\* x placed after every element whose key is >= x's key (stable, descending)
RECURSIVE InsertDesc(_, _)
InsertDesc(sorted, x) ==
  IF sorted = <<>> THEN <<x>>
  ELSE IF StrLess(Head(sorted).timestamp, x.timestamp)
       THEN <<x>> \o sorted
       ELSE <<Head(sorted)>> \o InsertDesc(Tail(sorted), x)

RECURSIVE SortFrom(_, _)
SortFrom(sorted, rest) ==
  IF rest = <<>> THEN sorted
  ELSE SortFrom(InsertDesc(sorted, Head(rest)), Tail(rest))

SortDesc(sessions) == SortFrom(<<>>, sessions)

(***************************************************************************)
(* Paths: a Path is the sequence of its components, str(path) its text     *)
(***************************************************************************)
n_d2328 == <<"d","2","3","2","8">>
n_d3630 == <<"d","3","6","3","0">>
n_MyApp == <<"M","y"," ","A","p","p">>
n_sessions == <<"s","e","s","s","i","o","n","s">>
n_projects == <<"p","r","o","j","e","c","t","s">>

\* the directories of the modelled machine
\* "/d2328/My App": a repository's top-level directory
RepoTop == <<n_d2328, n_MyApp>>
\* "/d2328/My App/My App": a directory of the same name inside it
RepoSub == <<n_d2328, n_MyApp, n_MyApp>>
\* "/d3630/My App": outside any repository; the SHA-256 of its text starts
\* with the same six hex digits as that of RepoTop's
TwinDir == <<n_d3630, n_MyApp>>
Cwds == {RepoTop, RepoSub, TwinDir}
Roots == Cwds

\* str(path) of an absolute path
RECURSIVE PathStr(_)
PathStr(path) ==
  IF path = <<>> THEN <<>> ELSE <<"/">> \o Head(path) \o PathStr(Tail(path))

\* Path.name
PathName(path) == IF path = <<>> THEN <<>> ELSE path[Len(path)]

\* the text after the last "/" of a path's text
RECURSIVE StrBasename(_)
StrBasename(s) ==
  IF \A i \in 1..Len(s) : s[i] # "/" THEN s ELSE StrBasename(Tail(s))

\* hashlib.sha256(path.encode('utf-8')).hexdigest()[:6], tabulated for the
\* texts of the modelled directories (the values are the real digests)
_generate_path_hash(path) ==
  CASE path = PathStr(RepoTop) -> <<"d","9","6","e","e","2">>
    [] path = PathStr(TwinDir) -> <<"d","9","6","e","e","2">>
    [] path = PathStr(RepoSub) -> <<"2","8","f","8","d","0">>

\* the handler's storage_base
storage_base == <<n_projects>>

\* on_session_start, lines 84-95: the names derived from project_root
ProjectSlug(project_root) == _generate_slug(PathName(project_root))
\* faulty variant: the directory is named by the slug alone
ProjectDirName_slug_only(project_root) == ProjectSlug(project_root)
ProjectDirName(project_root) ==
  ProjectSlug(project_root) \o <<Hyphen>> \o _generate_path_hash(PathStr(project_root))
ProjectDir(project_root) == storage_base \o <<ProjectDirName(project_root)>>
\* faulty variant: the storage path is the project directory itself
StoragePath_no_sessions(project_root) == ProjectDir(project_root)
StoragePath(project_root) == ProjectDir(project_root) \o <<n_sessions>>

DirNames == {ProjectDirName(r) : r \in Roots}

(***************************************************************************)
(* Project root detection                                                  *)
(***************************************************************************)
\* what `git rev-parse --show-toplevel` can do in directory cwd: print the
\* top-level directory, or fail in one of the three caught ways
GitFailures == {"CalledProcessError", "TimeoutExpired", "FileNotFoundError"}
NoPath == <<>>
GitTop(cwd) == IF cwd \in {RepoTop, RepoSub} THEN RepoTop ELSE NoPath
GitRootOutcomes(cwd) ==
  {[exc |-> e, stdout |-> NoPath] : e \in GitFailures}
    \cup (IF GitTop(cwd) # NoPath
          THEN {[exc |-> "none", stdout |-> GitTop(cwd)]} ELSE {})

\* _get_git_root: the printed path, or None (NoPath) on a caught failure
_get_git_root(run) == IF run.exc = "none" THEN run.stdout ELSE NoPath

\* faulty variant: the root query is made even when use_git_root is off
_detect_project_root_always_git(use_git_root, run, cwd) ==
  IF _get_git_root(run) # NoPath THEN _get_git_root(run) ELSE cwd

\* _detect_project_root; run is what the root query does if it is made
_detect_project_root(use_git_root, run, cwd) ==
  IF use_git_root /\ _get_git_root(run) # NoPath
  THEN _get_git_root(run)
  ELSE cwd

(***************************************************************************)
(* Contexts (dicts are functions from keys to values)                      *)
(***************************************************************************)
EmptyDict == [k \in {} |-> 0]
Contexts ==
  { EmptyDict,
    [session_id |-> "session-0", message_count |-> 3, purpose |-> "dev",
     user |-> "test-user"] }

\* faulty variant: the key is not looked up
Get_default_only(d, key, default) == default
\* dict.get(key, default)
Get(d, key, default) == IF key \in DOMAIN d THEN d[key] ELSE default

\* faulty variant: the dict is replaced by the new keys
Update_replace(d, new) == new
\* faulty variant: keys already in d keep their old values
Update_keep_old(d, new) == d @@ new
\* dict.update(new): new's keys replace or extend d's
Update(d, new) == new @@ d

DefaultPurpose == "Amplifier CLI session"
UnknownSession == "unknown"
None == "None"

(***************************************************************************)
(* Files                                                                   *)
(***************************************************************************)
\* a file is absent, holds a JSON document, holds text that does not parse
\* (malformed), or has just been truncated by open(file, 'w') (empty)
Absent == [kind |-> "absent", doc |-> EmptyDict]
Malformed == [kind |-> "malformed", doc |-> EmptyDict]
Truncated == [kind |-> "empty", doc |-> EmptyDict]
Json(doc) == [kind |-> "json", doc |-> doc]

\* Path.exists()
Exists(file) == file.kind # "absent"
\* faulty variant: text that does not parse is taken as an empty document
Parses_lenient(file) == TRUE
\* json.load succeeds
Parses(file) == file.kind = "json"

\* the length of a nullable text's JSON form: null, or the text in quotes
TextLen(v) == IF v = None THEN 4 ELSE Len(v) + 2

\* the length of json.dump(metadata, indent=2), less the part that is the same
\* for every document with these seven keys
MetadataSize(doc) ==
  Len(doc.first_seen) + Len(doc.slug) + Len(doc.full_path)
    + TextLen(doc.git_remote) + TextLen(doc.git_branch)
    + Len(doc.last_accessed) + Len(doc.purpose)

\* the length of json.dump(index, indent=2), less the part that is the same
\* for every index: per entry 80 characters of braces, keys, quotes and
\* indentation, the two texts and the one-digit message_count
RECURSIVE IndexSize(_)
IndexSize(sessions) ==
  IF sessions = <<>> THEN 0
  ELSE 80 + Len(Head(sessions).session_id)
          + Len(Head(sessions).timestamp) + 1 + IndexSize(Tail(sessions))

DocSize(doc) ==
  IF "sessions" \in DOMAIN doc THEN IndexSize(doc.sessions) ELSE MetadataSize(doc)

\* json.dump(doc, f) and the close of f, by a writer whose open(file, 'w')
\* truncated the file earlier: the text goes to offset 0. If nothing was
\* written since the truncation the file is the document. If another writer
\* wrote meanwhile, the text replaces the start of what is there, and a
\* longer text's tail stays behind it (mixed: does not parse; doc keeps the
\* document whose tail is left)
Dump(file, doc) ==
  IF file.kind \in {"json", "mixed"} /\ DocSize(doc) < DocSize(file.doc)
  THEN [kind |-> "mixed", doc |-> file.doc]
  ELSE Json(doc)

\* faulty variant: an existing document is not read, a new one is started
LoadOrCreate_always_create(file, fresh) == fresh
\* lines 217-224, 253-259: the document of an existing file, else a new one
LoadOrCreate(file, fresh) == IF Exists(file) THEN file.doc ELSE fresh

\* faulty variant: the stored slug is made from the whole path text
FreshMetadata_slug_of_path(project_root, t) ==
  [first_seen |-> IsoFormat(t), slug |-> _generate_slug(PathStr(project_root))]
\* lines 221-224: the record of a project seen for the first time at t
FreshMetadata(project_root, t) ==
  [first_seen |-> IsoFormat(t), slug |-> _generate_slug(PathName(project_root))]

\* a project directory nothing has been stored in
FreshDir == [sessions |-> FALSE, metadata |-> Absent, index |-> Absent]
\* a project directory left behind with an unreadable document
DamagedDirs ==
  { [sessions |-> TRUE, metadata |-> Malformed, index |-> Absent],
    [sessions |-> TRUE, metadata |-> Absent, index |-> Malformed] }

(***************************************************************************)
(* The remote and branch queries                                           *)
(***************************************************************************)
RemoteUrl == "git@host:my-app.git"
BranchName == "main"
\* `git remote get-url origin` / `git branch --show-current` in cwd when
\* the tool answers: the value inside the repository, None outside it
\* (non-zero exit, caught)
RemoteIn(cwd) == IF GitTop(cwd) # NoPath THEN RemoteUrl ELSE None
BranchIn(cwd) == IF GitTop(cwd) # NoPath THEN BranchName ELSE None

\* what each query can do in cwd: print its value (inside a repository
\* only), or fail in one of the three caught ways
RemoteOutcomes(cwd) ==
  {[exc |-> e, stdout |-> None] : e \in GitFailures}
    \cup (IF RemoteIn(cwd) # None
          THEN {[exc |-> "none", stdout |-> RemoteIn(cwd)]} ELSE {})
BranchOutcomes(cwd) ==
  {[exc |-> e, stdout |-> None] : e \in GitFailures}
    \cup (IF BranchIn(cwd) # None
          THEN {[exc |-> "none", stdout |-> BranchIn(cwd)]} ELSE {})

\* what each query does when the tool is installed and answers in time
RemoteAnswer(cwd) ==
  IF RemoteIn(cwd) # None THEN [exc |-> "none", stdout |-> RemoteIn(cwd)]
  ELSE [exc |-> "CalledProcessError", stdout |-> None]
BranchAnswer(cwd) ==
  IF BranchIn(cwd) # None THEN [exc |-> "none", stdout |-> BranchIn(cwd)]
  ELSE [exc |-> "CalledProcessError", stdout |-> None]

\* faulty variant: a failed query yields the empty text it printed
_get_git_remote_empty(run) == IF run.exc = "none" THEN run.stdout ELSE ""
\* _get_git_remote, _get_git_branch: the printed value, or None on a caught
\* failure
_get_git_remote(run) == IF run.exc = "none" THEN run.stdout ELSE None
_get_git_branch(run) == IF run.exc = "none" THEN run.stdout ELSE None

(***************************************************************************)
(* State                                                                   *)
(***************************************************************************)
MaxProcs == 2
Procs == 1..MaxProcs

VARIABLES
  fs,        \* storage_base: project directory name -> its directory
  pc,        \* per invocation: the statement on_session_start is at
  call,      \* per invocation: handler fields, context and local variables
  calls,     \* number of invocations started so far
  fs0,       \* the storage as it was before the first invocation
  returned,  \* per project directory and session id: how many create_dirs
             \* invocations with that id have returned
  stamped,   \* per project directory: the clock values taken for its
             \* metadata (first: first_seen of the first record created,
             \* last: last_accessed of the latest record built)
  clock,     \* the latest reading of datetime.now() (NoTime: the
             \* specification does not follow the clock)
  named,     \* per root path: the directory name the first invocation
             \* that resolved it produced (empty: none yet)
  slug_pc, name, slug,  \* a call of _generate_slug on its own
  sort_pc, sort_sessions, sort_record, sort_result
             \* an append-and-sort of index["sessions"] on its own

pureVars == <<slug_pc, name, slug, sort_pc, sort_sessions, sort_record,
              sort_result>>
vars == <<fs, pc, call, calls, fs0, returned, stamped, clock, named,
          pureVars>>

NoRun == [exc |-> "not run", stdout |-> NoPath]
NoQuery == [exc |-> "not run", stdout |-> None]
NoRecord == [session_id |-> UnknownSession, timestamp |-> <<>>,
             message_count |-> 0]
NoTime == [sec |-> 0 - 1, us |-> 0]
SessionIds == {Get(c, "session_id", UnknownSession) : c \in Contexts}

\* the clock after datetime.now() has returned t
Reading(t) == IF clock = NoTime THEN NoTime ELSE t

IdleCall ==
  [ use_git_root |-> FALSE, create_dirs |-> FALSE,
    context |-> EmptyDict, cwd |-> NoPath, git_run |-> NoRun,
    project_root |-> NoPath, project_slug |-> <<>>,
    project_dir_name |-> <<>>, storage_path |-> NoPath,
    remote_run |-> NoQuery, branch_run |-> NoQuery,
    git_remote |-> None, git_branch |-> None,
    metadata |-> EmptyDict, index |-> EmptyDict,
    before |-> Absent,
    result |-> "none" ]

Init ==
  /\ fs \in [DirNames -> {FreshDir} \cup DamagedDirs]
  /\ Cardinality({d \in DirNames : fs[d] # FreshDir}) <= MaxDamaged
  /\ pc = [p \in Procs |-> "idle"]
  /\ call = [p \in Procs |-> IdleCall]
  /\ calls = 0
  /\ fs0 = fs
  /\ returned = [d \in DirNames |-> [sid \in SessionIds |-> 0]]
  /\ stamped = [d \in DirNames |-> [first |-> NoTime, last |-> NoTime]]
  /\ clock = NoTime
  /\ named = [r \in Roots |-> <<>>]
  /\ slug_pc = "off" /\ name = <<>> /\ slug = <<>>
  /\ sort_pc = "off" /\ sort_sessions = <<>> /\ sort_record = NoRecord
  /\ sort_result = <<>>

\* faulty variant: every project is stored in one and the same directory
Dir_shared(p) == ProjectDirName(RepoTop)
Dir(p) == call[p].project_dir_name

\* faulty variant: a record with the same session_id is replaced
AppendSession_dedup(sessions, session_record) ==
  Append(SelectSeq(sessions,
                   LAMBDA e : e.session_id # session_record.session_id),
         session_record)
\* line 269: index["sessions"].append(session_record)
AppendSession(sessions, session_record) == Append(sessions, session_record)

\* faulty variant: the documents are written without creating the directory
AfterNaming_skip_mkdir(create_dirs) ==
  IF create_dirs THEN "meta_load" ELSE "annotate"
\* faulty variant: directories are created whatever create_dirs says
AfterNaming_always_create(create_dirs) == "mkdir"
\* line 98: `if self.create_dirs:` guards the directory and both documents
AfterNaming(create_dirs) == IF create_dirs THEN "mkdir" ELSE "annotate"

(***************************************************************************)
(* on_session_start, one action per statement that touches the storage     *)
(***************************************************************************)
\* faulty variant of Begin: the hash is taken of the working directory's
\* text, not of the detected root's
Begin_hash_of_cwd(p, ugr, cd, cwd, ctx, run) ==
  /\ pc[p] = "idle"
  /\ \A q \in Procs : q < p => pc[q] # "idle"
  /\ calls < MaxCalls
  /\ run \in GitRootOutcomes(cwd)
  /\ calls' = calls + 1
  /\ LET project_root == _detect_project_root(ugr, run, cwd)
         project_slug == ProjectSlug(project_root)
         project_dir_name ==
           project_slug \o <<Hyphen>> \o _generate_path_hash(PathStr(cwd))
         storage_path == storage_base \o <<project_dir_name, n_sessions>>
     IN  /\ call' = [call EXCEPT ![p] =
              [IdleCall EXCEPT !.use_git_root = ugr, !.create_dirs = cd,
                               !.cwd = cwd, !.context = ctx, !.git_run = run,
                               !.project_root = project_root,
                               !.project_slug = project_slug,
                               !.project_dir_name = project_dir_name,
                               !.storage_path = storage_path]]
         /\ named' = IF named[project_root] = <<>>
                     THEN [named EXCEPT ![project_root] = project_dir_name]
                     ELSE named
  /\ pc' = [pc EXCEPT ![p] = AfterNaming(cd)]
  /\ UNCHANGED <<fs, fs0, returned, stamped, clock, pureVars>>

\* The hook is invoked on a handler built with (use_git_root, create_dirs),
\* in a process whose working directory is cwd, with a context.
\* Lines 82-95: detect the root (run is what the root query does in cwd),
\* then derive slug, hash, directory name and storage path.
Begin(p, ugr, cd, cwd, ctx, run) ==
  /\ pc[p] = "idle"
  /\ \A q \in Procs : q < p => pc[q] # "idle"
  /\ calls < MaxCalls
  /\ run \in GitRootOutcomes(cwd)
  /\ calls' = calls + 1
  /\ LET project_root == _detect_project_root(ugr, run, cwd)
         project_slug == ProjectSlug(project_root)
         project_dir_name == ProjectDirName(project_root)
         storage_path == StoragePath(project_root)
     IN  /\ call' = [call EXCEPT ![p] =
              [IdleCall EXCEPT !.use_git_root = ugr, !.create_dirs = cd,
                               !.cwd = cwd, !.context = ctx, !.git_run = run,
                               !.project_root = project_root,
                               !.project_slug = project_slug,
                               !.project_dir_name = project_dir_name,
                               !.storage_path = storage_path]]
         /\ named' = IF named[project_root] = <<>>
                     THEN [named EXCEPT ![project_root] = project_dir_name]
                     ELSE named
  /\ pc' = [pc EXCEPT ![p] = AfterNaming(cd)]
  /\ UNCHANGED <<fs, fs0, returned, stamped, clock, pureVars>>

\* faulty variant: the queries are run without timeout=2, and an invocation
\* whose query hangs never gets past it
MakeDirs_no_timeout(p, remote_run, branch_run) ==
  /\ pc[p] = "mkdir"
  /\ remote_run \in RemoteOutcomes(call[p].cwd)
  /\ branch_run \in BranchOutcomes(call[p].cwd)
  /\ fs' = [fs EXCEPT ![Dir(p)].sessions = TRUE]
  /\ call' = [call EXCEPT ![p].remote_run = remote_run,
                          ![p].branch_run = branch_run]
  /\ pc' = [pc EXCEPT ![p] =
              IF "TimeoutExpired" \in {remote_run.exc, branch_run.exc}
              THEN "hung" ELSE "meta_load"]
  /\ UNCHANGED <<calls, fs0, returned, stamped, clock, named, pureVars>>

\* line 99: storage_path.mkdir(parents=True, exist_ok=True), then
\* lines 213-214: the remote and branch queries, each a value or None
\* (remote_run, branch_run: what each query does in the working directory)
MakeDirs(p, remote_run, branch_run) ==
  /\ pc[p] = "mkdir"
  /\ remote_run \in RemoteOutcomes(call[p].cwd)
  /\ branch_run \in BranchOutcomes(call[p].cwd)
  /\ fs' = [fs EXCEPT ![Dir(p)].sessions = TRUE]
  /\ call' = [call EXCEPT ![p].remote_run = remote_run,
                          ![p].branch_run = branch_run,
                          ![p].git_remote = _get_git_remote(remote_run),
                          ![p].git_branch = _get_git_branch(branch_run)]
  /\ pc' = [pc EXCEPT ![p] = "meta_load"]
  /\ UNCHANGED <<calls, fs0, returned, stamped, clock, named, pureVars>>

\* faulty variant: for a new record last_accessed is the earlier of the two
\* clock readings and first_seen the later one
MetaLoad_last_first(p, t_first, t_last) ==
  /\ pc[p] = "meta_load"
  /\ LET file == fs[Dir(p)].metadata
         loaded == LoadOrCreate(file,
                     FreshMetadata(call[p].project_root, t_last))
         metadata == Update(loaded,
                       [full_path |-> PathStr(call[p].project_root),
                        git_remote |-> call[p].git_remote,
                        git_branch |-> call[p].git_branch,
                        last_accessed |->
                          IsoFormat(IF Exists(file) THEN t_last ELSE t_first),
                        purpose |-> Get(call[p].context, "purpose", DefaultPurpose)])
     IN  IF Exists(file) /\ ~Parses(file)
         THEN /\ call' = [call EXCEPT ![p].result = "JSONDecodeError",
                                      ![p].cwd = NoPath,
                                      ![p].git_run = NoRun,
                                      ![p].remote_run = NoQuery,
                                      ![p].branch_run = NoQuery]
              /\ pc' = [pc EXCEPT ![p] = "failed"]
              /\ t_first = NoTime /\ t_last = NoTime
              /\ UNCHANGED <<stamped, clock>>
         ELSE /\ call' = [call EXCEPT ![p].metadata = metadata,
                                      ![p].cwd = NoPath,
                                      ![p].git_run = NoRun,
                                      ![p].remote_run = NoQuery,
                                      ![p].branch_run = NoQuery,
                                      ![p].git_remote = None,
                                      ![p].git_branch = None]
              /\ pc' = [pc EXCEPT ![p] = "meta_open"]
              /\ t_last \in Times
              /\ IF Exists(file) THEN t_first = NoTime ELSE t_first \in Times
              /\ stamped' = [stamped EXCEPT ![Dir(p)] =
                   [first |-> IF @.first = NoTime THEN t_first ELSE @.first,
                    last |-> t_last]]
              /\ clock' = Reading(t_last)
  /\ UNCHANGED <<fs, calls, fs0, returned, named, pureVars>>

\* lines 216-233: load or create the metadata dict, then update it; an
\* existing file that does not parse makes json.load raise
MetaLoad(p, t_first, t_last) ==
  /\ pc[p] = "meta_load"
  /\ LET file == fs[Dir(p)].metadata
         loaded == LoadOrCreate(file,
                     FreshMetadata(call[p].project_root, t_first))
         metadata == Update(loaded,
                       [full_path |-> PathStr(call[p].project_root),
                        git_remote |-> call[p].git_remote,
                        git_branch |-> call[p].git_branch,
                        last_accessed |-> IsoFormat(t_last),
                        purpose |-> Get(call[p].context, "purpose", DefaultPurpose)])
     IN  IF Exists(file) /\ ~Parses(file)
         THEN /\ call' = [call EXCEPT ![p].result = "JSONDecodeError",
                                      ![p].cwd = NoPath,
                                      ![p].git_run = NoRun,
                                      ![p].remote_run = NoQuery,
                                      ![p].branch_run = NoQuery]
              /\ pc' = [pc EXCEPT ![p] = "failed"]
              /\ t_first = NoTime /\ t_last = NoTime
              /\ UNCHANGED <<stamped, clock>>
         ELSE /\ call' = [call EXCEPT ![p].metadata = metadata,
                                      ![p].cwd = NoPath,
                                      ![p].git_run = NoRun,
                                      ![p].remote_run = NoQuery,
                                      ![p].branch_run = NoQuery,
                                      ![p].git_remote = None,
                                      ![p].git_branch = None]
              /\ pc' = [pc EXCEPT ![p] = "meta_open"]
              /\ t_last \in Times
              /\ IF Exists(file) THEN t_first = NoTime ELSE t_first \in Times
              /\ stamped' = [stamped EXCEPT ![Dir(p)] =
                   [first |-> IF @.first = NoTime THEN t_first ELSE @.first,
                    last |-> t_last]]
              /\ clock' = Reading(t_last)
  /\ UNCHANGED <<fs, calls, fs0, returned, named, pureVars>>

\* line 236: open(metadata_file, 'w') truncates the file
MetaOpen(p) ==
  /\ pc[p] = "meta_open"
  /\ fs' = [fs EXCEPT ![Dir(p)].metadata = Truncated]
  /\ call' = [call EXCEPT ![p].before = fs[Dir(p)].metadata]
  /\ pc' = [pc EXCEPT ![p] = "meta_dump"]
  /\ UNCHANGED <<calls, fs0, returned, stamped, clock, named, pureVars>>

\* line 237: json.dump(metadata, f); _update_project_metadata returns
MetaDump(p) ==
  /\ pc[p] = "meta_dump"
  /\ fs' = [fs EXCEPT ![Dir(p)].metadata =
                         Dump(fs[Dir(p)].metadata, call[p].metadata)]
  /\ call' = [call EXCEPT ![p].metadata = EmptyDict, ![p].before = Absent]
  /\ pc' = [pc EXCEPT ![p] = "index_load"]
  /\ UNCHANGED <<calls, fs0, returned, stamped, clock, named, pureVars>>

\* faulty variant: the read-modify-write of index.json is under a lock, and
\* an invocation waits while another one holds it
IndexLoad_locked(p, t) ==
  /\ pc[p] = "index_load"
  /\ \A q \in Procs \ {p} :
       ~(Dir(q) = Dir(p) /\ pc[q] \in {"index_open", "index_dump"})
  /\ LET file == fs[Dir(p)].index
         loaded == LoadOrCreate(file, [sessions |-> <<>>])
         session_record ==
           [session_id |-> Get(call[p].context, "session_id", UnknownSession),
            timestamp |-> IsoFormat(t),
            message_count |-> Get(call[p].context, "message_count", 0)]
     IN  IF Exists(file) /\ ~Parses(file)
         THEN /\ call' = [call EXCEPT ![p].result = "JSONDecodeError"]
              /\ pc' = [pc EXCEPT ![p] = "failed"]
              /\ t = NoTime
              /\ UNCHANGED clock
         ELSE /\ call' = [call EXCEPT ![p].index =
                   [loaded EXCEPT !.sessions =
                      SortDesc(AppendSession(loaded.sessions, session_record))]]
              /\ pc' = [pc EXCEPT ![p] = "index_open"]
              /\ t \in Times
              /\ clock' = Reading(t)
  /\ UNCHANGED <<fs, calls, fs0, returned, stamped, named, pureVars>>

\* faulty variant: an index.json that does not parse is started afresh
IndexLoad_recreate(p, t) ==
  /\ pc[p] = "index_load"
  /\ LET file == fs[Dir(p)].index
         loaded == IF Parses(file) THEN file.doc ELSE [sessions |-> <<>>]
         session_record ==
           [session_id |-> Get(call[p].context, "session_id", UnknownSession),
            timestamp |-> IsoFormat(t),
            message_count |-> Get(call[p].context, "message_count", 0)]
     IN  /\ call' = [call EXCEPT ![p].index =
              [loaded EXCEPT !.sessions =
                 SortDesc(AppendSession(loaded.sessions, session_record))]]
         /\ pc' = [pc EXCEPT ![p] = "index_open"]
         /\ t \in Times
         /\ clock' = Reading(t)
  /\ UNCHANGED <<fs, calls, fs0, returned, stamped, named, pureVars>>

\* lines 252-272: load or create the index, append the session record, sort
IndexLoad(p, t) ==
  /\ pc[p] = "index_load"
  /\ LET file == fs[Dir(p)].index
         loaded == LoadOrCreate(file, [sessions |-> <<>>])
         session_record ==
           [session_id |-> Get(call[p].context, "session_id", UnknownSession),
            timestamp |-> IsoFormat(t),
            message_count |-> Get(call[p].context, "message_count", 0)]
     IN  IF Exists(file) /\ ~Parses(file)
         THEN /\ call' = [call EXCEPT ![p].result = "JSONDecodeError"]
              /\ pc' = [pc EXCEPT ![p] = "failed"]
              /\ t = NoTime
              /\ UNCHANGED clock
         ELSE /\ call' = [call EXCEPT ![p].index =
                   [loaded EXCEPT !.sessions =
                      SortDesc(AppendSession(loaded.sessions, session_record))]]
              /\ pc' = [pc EXCEPT ![p] = "index_open"]
              /\ t \in Times
              /\ clock' = Reading(t)
  /\ UNCHANGED <<fs, calls, fs0, returned, stamped, named, pureVars>>

\* line 275: open(index_file, 'w') truncates the file
IndexOpen(p) ==
  /\ pc[p] = "index_open"
  /\ fs' = [fs EXCEPT ![Dir(p)].index = Truncated]
  /\ call' = [call EXCEPT ![p].before = fs[Dir(p)].index]
  /\ pc' = [pc EXCEPT ![p] = "index_dump"]
  /\ UNCHANGED <<calls, fs0, returned, stamped, clock, named, pureVars>>

\* line 276: json.dump(index, f); _update_project_index returns
IndexDump(p) ==
  /\ pc[p] = "index_dump"
  /\ fs' = [fs EXCEPT ![Dir(p)].index = Dump(fs[Dir(p)].index, call[p].index)]
  /\ call' = [call EXCEPT ![p].index = EmptyDict, ![p].before = Absent]
  /\ pc' = [pc EXCEPT ![p] = "annotate"]
  /\ UNCHANGED <<calls, fs0, returned, stamped, clock, named, pureVars>>

\* lines 108-114: the four context keys, then HookResult(action="continue")
Annotate(p) ==
  /\ pc[p] = "annotate"
  /\ call' = [call EXCEPT
       ![p].context = Update(@,
          [storage_path |-> PathStr(call[p].storage_path),
           project_root |-> PathStr(call[p].project_root),
           project_slug |-> call[p].project_slug,
           project_dir_name |-> call[p].project_dir_name]),
       ![p].cwd = NoPath, ![p].git_run = NoRun,
       ![p].result = "continue"]
  /\ pc' = [pc EXCEPT ![p] = "done"]
  /\ returned' =
       IF call[p].create_dirs
       THEN [returned EXCEPT
               ![Dir(p)][Get(call[p].context, "session_id", UnknownSession)] = @ + 1]
       ELSE returned
  /\ UNCHANGED <<fs, calls, fs0, stamped, clock, named, pureVars>>

\* the caller has taken the result (or the error); the invocation is over
Return(p) ==
  /\ pc[p] \in {"done", "failed"}
  /\ pc' = [pc EXCEPT ![p] = "idle"]
  /\ call' = [call EXCEPT ![p] = IdleCall]
  /\ UNCHANGED <<fs, calls, fs0, returned, stamped, clock, named, pureVars>>

Quiet == \A p \in Procs : pc[p] = "idle"

\* an invocation that starts only when every earlier one has returned
BeginSeq(p, ugr, cd, cwd, ctx, run) == Quiet /\ Begin(p, ugr, cd, cwd, ctx, run)

AllRuns == UNION {GitRootOutcomes(cwd) : cwd \in Cwds}

\* the steps of a started invocation; the remote and branch queries answer
Step(p) ==
  \/ MakeDirs(p, RemoteAnswer(call[p].cwd), BranchAnswer(call[p].cwd))
  \/ \E t_first, t_last \in Times \cup {NoTime} : MetaLoad(p, t_first, t_last)
  \/ MetaOpen(p)
  \/ MetaDump(p)
  \/ \E t \in Times \cup {NoTime} : IndexLoad(p, t)
  \/ IndexOpen(p)
  \/ IndexDump(p)
  \/ Annotate(p)
  \/ Return(p)

Next ==
  \E p \in Procs :
    \/ \E ugr, cd \in BOOLEAN, cwd \in Cwds, ctx \in Contexts, run \in AllRuns :
          Begin(p, ugr, cd, cwd, ctx, run)
    \/ Step(p)

NextSeq ==
  \E p \in Procs :
    \/ \E ugr, cd \in BOOLEAN, cwd \in Cwds, ctx \in Contexts, run \in AllRuns :
          BeginSeq(p, ugr, cd, cwd, ctx, run)
    \/ Step(p)

\* invocations may overlap
Spec == Init /\ [][Next]_vars
\* invocations one after another
SpecSeq == Init /\ [][NextSeq]_vars

(***************************************************************************)
(* Invocations one after another, every outcome of the three queries       *)
(***************************************************************************)
\* a clock that stands still
Epoch == [sec |-> 0, us |-> 0]
RemoteRuns == UNION {RemoteOutcomes(cwd) : cwd \in Cwds}
BranchRuns == UNION {BranchOutcomes(cwd) : cwd \in Cwds}

\* the steps of a started invocation; each of the remote and branch queries
\* answers, exits non-zero, times out or finds no tool
StepGit(p) ==
  \/ \E remote_run \in RemoteRuns, branch_run \in BranchRuns :
        MakeDirs(p, remote_run, branch_run)
  \/ \E t_first, t_last \in {Epoch, NoTime} : MetaLoad(p, t_first, t_last)
  \/ MetaOpen(p)
  \/ MetaDump(p)
  \/ \E t \in {Epoch, NoTime} : IndexLoad(p, t)
  \/ IndexOpen(p)
  \/ IndexDump(p)
  \/ Annotate(p)
  \/ Return(p)

NextGit ==
  \E p \in Procs :
    \/ \E ugr, cd \in BOOLEAN, cwd \in Cwds, ctx \in Contexts, run \in AllRuns :
          BeginSeq(p, ugr, cd, cwd, ctx, run)
    \/ StepGit(p)

\* the statements an invocation can be at
Running == {"mkdir", "meta_load", "meta_open", "meta_dump", "index_load",
            "index_open", "index_dump", "annotate", "done", "failed"}
\* invocation p moves on to another statement
Advance(p) ==
  /\ pc[p] \in Running
  /\ \E next \in Running \cup {"idle"} :
       next # pc[p] /\ pc' = [pc EXCEPT ![p] = next]

\* on_session_start is straight-line code without locks or waits: a started
\* invocation takes its next step whatever other invocations do, and
\* subprocess.run(timeout=2) returns or raises within the timeout
SpecGit == Init /\ [][NextGit]_vars /\ \A p \in Procs : WF_pc(Advance(p))

(***************************************************************************)
(* Invocations that overlap, on empty storage, for projects named by the   *)
(* working directory                                                       *)
(***************************************************************************)
InitPar == Init /\ fs = [d \in DirNames |-> FreshDir]

\* the root query is not made (use_git_root off), the remote and branch
\* queries answer, and the clock advances only between updates of
\* metadata.json: the two readings of one update are equal, and index.json
\* is stamped with the latest reading taken for the project's metadata.json
StepPar(p) ==
  \/ MakeDirs(p, RemoteAnswer(call[p].cwd), BranchAnswer(call[p].cwd))
  \/ \E t_first, t_last \in Times \cup {NoTime} :
        t_first \in {t_last, NoTime} /\ MetaLoad(p, t_first, t_last)
  \/ MetaOpen(p)
  \/ MetaDump(p)
  \/ /\ pc[p] = "index_load"
     /\ \E t \in {stamped[Dir(p)].last, NoTime} : IndexLoad(p, t)
  \/ IndexOpen(p)
  \/ IndexDump(p)
  \/ Annotate(p)
  \/ Return(p)

\* two working directories with different directory names
ParCwds == {RepoTop, RepoSub}

NextPar ==
  \E p \in Procs :
    \/ \E cwd \in ParCwds, ctx \in Contexts :
          Begin(p, FALSE, TRUE, cwd, ctx,
                [exc |-> "CalledProcessError", stdout |-> NoPath])
    \/ StepPar(p)

SpecPar == InitPar /\ [][NextPar]_vars

(***************************************************************************)
(* Invocations that overlap, on empty storage, with a clock that never     *)
(* goes backwards                                                          *)
(***************************************************************************)
InitMono ==
  /\ fs = [d \in DirNames |-> FreshDir]
  /\ pc = [p \in Procs |-> "idle"]
  /\ call = [p \in Procs |-> IdleCall]
  /\ calls = 0
  /\ fs0 = fs
  /\ returned = [d \in DirNames |-> [sid \in SessionIds |-> 0]]
  /\ stamped = [d \in DirNames |-> [first |-> NoTime, last |-> NoTime]]
  /\ clock = Epoch
  /\ named = [r \in Roots |-> <<>>]
  /\ slug_pc = "off" /\ name = <<>> /\ slug = <<>>
  /\ sort_pc = "off" /\ sort_sessions = <<>> /\ sort_record = NoRecord
  /\ sort_result = <<>>

\* t can be read from the clock now (NoTime: no reading is taken)
NotBefore(t) == t # NoTime => TimeLeq(clock, t)

\* every reading of datetime.now() is at or after the one before it: line 222
\* (first_seen) is read before line 231 (last_accessed)
StepMono(p) ==
  \/ MakeDirs(p, RemoteAnswer(call[p].cwd), BranchAnswer(call[p].cwd))
  \/ \E t_first, t_last \in Times \cup {NoTime} :
        /\ NotBefore(t_first) /\ NotBefore(t_last)
        /\ t_first # NoTime => TimeLeq(t_first, t_last)
        /\ MetaLoad(p, t_first, t_last)
  \/ MetaOpen(p)
  \/ MetaDump(p)
  \/ \E t \in Times \cup {NoTime} : NotBefore(t) /\ IndexLoad(p, t)
  \/ IndexOpen(p)
  \/ IndexDump(p)
  \/ Annotate(p)
  \/ Return(p)

NextMono ==
  \E p \in Procs :
    \/ \E cwd \in ParCwds, ctx \in Contexts :
          Begin(p, FALSE, TRUE, cwd, ctx,
                [exc |-> "CalledProcessError", stdout |-> NoPath])
    \/ StepMono(p)

SpecMono == InitMono /\ [][NextMono]_vars

(***************************************************************************)
(* _generate_slug applied to every name of a bounded set                   *)
(***************************************************************************)
Alphabet == {"a", "B", "1", " ", "_", "-", "!", "U+0130"}
RECURSIVE SeqsUpTo(_, _)
SeqsUpTo(S, n) ==
  IF n = 0 THEN {<<>>}
  ELSE LET shorter == SeqsUpTo(S, n - 1)
       IN  shorter \cup {Append(q, c) : q \in shorter, c \in S}
SampleNames ==
  { n_MyApp,
    <<"D","e","f","a","u","l","t">>,
    <<"d","e","f","!","a","u","l","t">>,
    <<"M","y"," ","P","r","o","j","e","c","t","_","2">>,
    <<"a","-","-","-","b">>,
    <<"p","r","o","j","e","c","t","@","v","2","!">> }
SlugInputs == SeqsUpTo(Alphabet, MaxLen) \cup SampleNames

InitSlug ==
  /\ fs = [d \in DirNames |-> FreshDir]
  /\ pc = [p \in Procs |-> "idle"]
  /\ call = [p \in Procs |-> IdleCall]
  /\ calls = 0
  /\ fs0 = fs
  /\ returned = [d \in DirNames |-> [sid \in SessionIds |-> 0]]
  /\ stamped = [d \in DirNames |-> [first |-> NoTime, last |-> NoTime]]
  /\ clock = NoTime
  /\ named = [r \in Roots |-> <<>>]
  /\ slug_pc = "call" /\ name \in SlugInputs /\ slug = <<>>
  /\ sort_pc = "off" /\ sort_sessions = <<>> /\ sort_record = NoRecord
  /\ sort_result = <<>>

GenerateSlug ==
  /\ slug_pc = "call"
  /\ slug' = _generate_slug(name)
  /\ slug_pc' = "return"
  /\ UNCHANGED <<fs, pc, call, calls, fs0, returned, stamped, clock, named, name,
                 sort_pc, sort_sessions, sort_record, sort_result>>

SpecSlug == InitSlug /\ [][GenerateSlug]_vars

(***************************************************************************)
(* Lines 269-272 applied to every sorted list of a bounded set             *)
(***************************************************************************)
MaxEntries == 3

\* the lists index.json can hold: n records, most recent first; the
\* message_count of a record is its place in the list, which tells records
\* with the same session_id and timestamp apart
StoredLists ==
  UNION { { l \in [1..n -> [session_id : SessionIds,
                            timestamp : {IsoFormat(t) : t \in Times},
                            message_count : 1..n]] :
              /\ \A i \in 1..n : l[i].message_count = i
              /\ \A i \in 1..(n - 1) :
                   ~StrLess(l[i].timestamp, l[i + 1].timestamp) } :
          n \in 0..MaxEntries }

NewRecords ==
  [session_id : SessionIds, timestamp : {IsoFormat(t) : t \in Times},
   message_count : {0}]

InitSort ==
  /\ fs = [d \in DirNames |-> FreshDir]
  /\ pc = [p \in Procs |-> "idle"]
  /\ call = [p \in Procs |-> IdleCall]
  /\ calls = 0
  /\ fs0 = fs
  /\ returned = [d \in DirNames |-> [sid \in SessionIds |-> 0]]
  /\ stamped = [d \in DirNames |-> [first |-> NoTime, last |-> NoTime]]
  /\ clock = NoTime
  /\ named = [r \in Roots |-> <<>>]
  /\ slug_pc = "off" /\ name = <<>> /\ slug = <<>>
  /\ sort_pc = "call" /\ sort_sessions \in StoredLists
  /\ sort_record \in NewRecords /\ sort_result = <<>>

\* index["sessions"].append(session_record); index["sessions"].sort(...)
AppendAndSort ==
  /\ sort_pc = "call"
  /\ sort_result' = SortDesc(AppendSession(sort_sessions, sort_record))
  /\ sort_pc' = "return"
  /\ UNCHANGED <<fs, pc, call, calls, fs0, returned, stamped, clock, named,
                 slug_pc, name, slug, sort_sessions, sort_record>>

SpecSort == InitSort /\ [][AppendAndSort]_vars

(***************************************************************************)
(* Properties                                                              *)
(***************************************************************************)
\* every invocation has returned or failed
Settled == \A p \in Procs : pc[p] \in {"idle", "done", "failed"}

IsJson(file) == file.kind = "json"

RECURSIVE SumOver(_, _)
SumOver(f, S) ==
  IF S = {} THEN 0
  ELSE LET x == CHOOSE y \in S : TRUE IN f[x] + SumOver(f, S \ {x})

ReturnedCount(d) == SumOver(returned[d], SessionIds)

CountSession(sessions, sid) ==
  Cardinality({i \in 1..Len(sessions) : sessions[i].session_id = sid})

\* non-increasing by the timestamp texts, and by the times they denote
SortedDescending(sessions) ==
  \A i, j \in 1..Len(sessions) :
    i < j => /\ ~StrLess(sessions[i].timestamp, sessions[j].timestamp)
             /\ TimeLeq(ParseIso(sessions[j].timestamp),
                        ParseIso(sessions[i].timestamp))

\* C1: whenever index.json holds a document written by on_session_start,
\* its sessions are sorted by timestamp, most recent first.
C1_IndexSortedDescending ==
  \A d \in DirNames :
    IsJson(fs[d].index) => SortedDescending(fs[d].index.doc.sessions)

C1_Witness ==
  \E d \in DirNames :
    /\ IsJson(fs[d].index)
    /\ Len(fs[d].index.doc.sessions) >= 2
    /\ fs[d].index.doc.sessions[1].timestamp # fs[d].index.doc.sessions[2].timestamp

\* C2: after N sequential create_dirs invocations on a project whose
\* index.json did not exist at first, index.json holds exactly N entries,
\* one per invocation with its session_id; repeated ids are not merged.
C2_OneEntryPerCall ==
  Settled =>
    \A d \in DirNames :
      ~Exists(fs0[d].index) =>
        IF Exists(fs[d].index)
        THEN /\ IsJson(fs[d].index)
             /\ Len(fs[d].index.doc.sessions) = ReturnedCount(d)
             /\ \A sid \in SessionIds :
                  CountSession(fs[d].index.doc.sessions, sid) = returned[d][sid]
        ELSE ReturnedCount(d) = 0

C2_Witness ==
  /\ Settled
  /\ \E d \in DirNames :
       /\ ~Exists(fs0[d].index)
       /\ returned[d]["session-0"] = 2
       /\ IsJson(fs[d].index)
       /\ Len(fs[d].index.doc.sessions) = 2

\* C3: in sequential invocations on a project whose metadata.json did not
\* exist at first, first_seen stays the value the first invocation wrote,
\* and last_accessed is the timestamp the latest invocation took; a later
\* clock value always renders as a greater timestamp.
C3_FirstSeenKeptLastAccessedRefreshed ==
  /\ \A d \in DirNames :
       (~Exists(fs0[d].metadata) /\ IsJson(fs[d].metadata)) =>
          /\ fs[d].metadata.doc.first_seen = IsoFormat(stamped[d].first)
          /\ Settled =>
               fs[d].metadata.doc.last_accessed = IsoFormat(stamped[d].last)
  /\ \A t1, t2 \in Times :
       (TimeLeq(t1, t2) /\ t1 # t2) => StrLess(IsoFormat(t1), IsoFormat(t2))

C3_Witness ==
  /\ Settled
  /\ \E d \in DirNames :
       /\ ~Exists(fs0[d].metadata)
       /\ IsJson(fs[d].metadata)
       /\ ReturnedCount(d) >= 2
       /\ fs[d].metadata.doc.first_seen # fs[d].metadata.doc.last_accessed

OutputKeys == {"storage_path", "project_root", "project_slug", "project_dir_name"}

\* the four output values, recomputed from the text of project_root
OutputsConsistent(context) ==
  /\ OutputKeys \subseteq DOMAIN context
  /\ context.project_slug = _generate_slug(StrBasename(context.project_root))
  /\ context.project_dir_name =
       context.project_slug \o <<Hyphen>> \o _generate_path_hash(context.project_root)
  /\ context.storage_path =
       PathStr(storage_base) \o <<"/">> \o context.project_dir_name
         \o <<"/">> \o n_sessions

\* C4: an invocation on a handler with create_dirs off changes nothing in
\* the storage, and its context still receives the four computed values.
C4_NoCreateDirsNoWrites ==
  /\ [](\A p \in Procs :
          (pc[p] = "done" /\ ~call[p].create_dirs) =>
             /\ OutputsConsistent(call[p].context)
             /\ call[p].context.project_root = PathStr(call[p].project_root))
  /\ [][\A p \in Procs :
          (pc[p] # "idle" /\ ~call[p].create_dirs /\ pc'[p] # pc[p]) => fs' = fs]_vars

C4_Witness ==
  \E p \in Procs :
    /\ pc[p] = "done"
    /\ ~call[p].create_dirs
    /\ fs[Dir(p)] = FreshDir
    /\ OutputKeys \subseteq DOMAIN call[p].context

\* C5: an invocation that returns returns "continue", with project_slug the
\* slug of the root's basename, project_dir_name = slug-fingerprint and
\* storage_path = storage_base/project_dir_name/sessions in the context.
C5_ReturnsContinueWithOutputs ==
  \A p \in Procs :
    /\ pc[p] = "done" =>
         /\ call[p].result = "continue"
         /\ OutputsConsistent(call[p].context)
    /\ call[p].result = "continue" => pc[p] = "done"

C5_Witness ==
  \E p \in Procs :
    /\ pc[p] = "done"
    /\ call[p].create_dirs
    /\ call[p].context.project_slug = <<"m","y","-","a","p","p">>
    /\ IsJson(fs[Dir(p)].index)

\* C6: every invocation that resolves a given root path produces the
\* directory name that the first invocation resolving that path produced.
C6_DirNameFunctionOfRoot ==
  \A p \in Procs :
    pc[p] # "idle" => call[p].project_dir_name = named[call[p].project_root]

\* a later invocation with create_dirs off and without purpose, on a root
\* whose directory an earlier create_dirs invocation with a purpose filled
C6_Witness ==
  \E p \in Procs :
    /\ pc[p] = "done"
    /\ ~call[p].create_dirs
    /\ "purpose" \notin DOMAIN call[p].context
    /\ IsJson(fs[Dir(p)].metadata)
    /\ fs[Dir(p)].metadata.doc.full_path = PathStr(call[p].project_root)
    /\ fs[Dir(p)].metadata.doc.purpose = "dev"

SlugPrefix(r) == ProjectSlug(r) \o <<Hyphen>>
StartsWith(s, prefix) ==
  Len(s) >= Len(prefix) /\ SubSeq(s, 1, Len(prefix)) = prefix

\* C7 as stated: different root paths with the same basename get directory
\* names with the same slug prefix that are unequal.
C7_AsStated ==
  \A r1, r2 \in Roots :
    (r1 # r2 /\ PathName(r1) = PathName(r2)
       /\ named[r1] # <<>> /\ named[r2] # <<>>) =>
      /\ StartsWith(named[r1], SlugPrefix(r1))
      /\ StartsWith(named[r2], SlugPrefix(r1))
      /\ named[r1] # named[r2]

\* C7, amended: different root paths with the same basename get directory
\* names with the same slug prefix; the names are unequal exactly when the
\* six-digit hashes of the two paths differ.
C7_SameSlugDistinctUnlessHashCollides ==
  \A r1, r2 \in Roots :
    (r1 # r2 /\ PathName(r1) = PathName(r2)
       /\ named[r1] # <<>> /\ named[r2] # <<>>) =>
      /\ StartsWith(named[r1], SlugPrefix(r1))
      /\ StartsWith(named[r2], SlugPrefix(r1))
      /\ (named[r1] # named[r2]) <=>
           (_generate_path_hash(PathStr(r1)) # _generate_path_hash(PathStr(r2)))

\* both documents of two same-named projects exist in different directories
C7_Witness ==
  \E r1, r2 \in Roots :
    /\ r1 # r2 /\ PathName(r1) = PathName(r2)
    /\ named[r1] # <<>> /\ named[r2] # <<>>
    /\ named[r1] # named[r2]
    /\ IsJson(fs[named[r1]].metadata) /\ IsJson(fs[named[r2]].metadata)
    /\ fs[named[r1]].metadata.doc.full_path = PathStr(r1)
    /\ fs[named[r2]].metadata.doc.full_path = PathStr(r2)

\* the detection's inputs are still in scope
Detected(p) == pc[p] \in {"mkdir", "annotate"} /\ call[p].cwd # NoPath

\* C8: detection yields the repository's top-level directory when
\* use_git_root is on and the root query succeeds, and the working
\* directory otherwise (query off, or failed in any of the caught ways);
\* it raises nothing.
C8_RootIsGitTopOrCwd ==
  \A p \in Procs :
    Detected(p) =>
      LET c == call[p]
          succeeded == c.git_run.exc = "none"
      IN  /\ c.result = "none"
          /\ (c.use_git_root /\ succeeded) =>
               (c.project_root = GitTop(c.cwd) /\ GitTop(c.cwd) # NoPath)
          /\ ~(c.use_git_root /\ succeeded) => c.project_root = c.cwd

C8_Witness ==
  \E p \in Procs :
    /\ Detected(p)
    /\ call[p].use_git_root
    /\ call[p].git_run.exc = "TimeoutExpired"
    /\ call[p].cwd = RepoSub
    /\ call[p].project_root = RepoSub

\* C9 as stated: the slug matches ^[a-z0-9]+(-[a-z0-9]+)*$ and is
\* "default" exactly when the lowercased name has no character of [a-z0-9].
C9_AsStated ==
  slug_pc = "return" =>
    /\ MatchesSlugPattern(slug)
    /\ (slug = DefaultSlug) <=> ~HasAlnum(name)

\* C9, amended: the slug matches the pattern; it is "default" whenever the
\* lowercased name has no character of [a-z0-9]; otherwise its characters
\* other than hyphens are the [a-z0-9] characters of the lowercased name,
\* in order.
C9_SlugWellFormed ==
  slug_pc = "return" =>
    /\ MatchesSlugPattern(slug)
    /\ ~HasAlnum(name) => slug = DefaultSlug
    /\ HasAlnum(name) =>
         RemoveOutside(slug, AlnumChars) = RemoveOutside(Lower(name), AlnumChars)

C9_Witness ==
  /\ slug_pc = "return"
  /\ name = <<"_", "-", "!">>
  /\ slug = DefaultSlug

\* C10: while a project's metadata.json is the unparseable file it was at
\* first, every create_dirs invocation on that project fails at the load
\* with an error, none gets past it, and the file is left as it was.
C10_MalformedMetadataIsFatal ==
  \A d \in DirNames :
    fs0[d].metadata.kind = "malformed" =>
      /\ fs[d].metadata = fs0[d].metadata
      /\ ReturnedCount(d) = 0
      /\ \A p \in Procs :
           (pc[p] # "idle" /\ call[p].create_dirs /\ Dir(p) = d) =>
              /\ pc[p] \in {"mkdir", "meta_load", "failed"}
              /\ pc[p] = "failed" => call[p].result = "JSONDecodeError"
              /\ call[p].result # "continue"
              /\ OutputKeys \cap DOMAIN call[p].context = {}

C10_Witness ==
  \E p \in Procs :
    /\ pc[p] = "failed"
    /\ call[p].result = "JSONDecodeError"
    /\ fs[Dir(p)].metadata = Malformed

\* C11: a failure of the remote or of the branch query (non-zero exit,
\* timeout, no tool) never fails on_session_start: the invocation goes on
\* with that field None, the metadata record is built and written with the
\* field None, and a create_dirs invocation fails only on a document that
\* was unreadable before, else returns "continue" with its index entry
\* written. Each query fails or succeeds whatever the others did.
C11_QueryFailureIsSoft ==
  /\ [](\A p \in Procs :
          /\ pc[p] = "meta_load" =>
                /\ call[p].result = "none"
                /\ call[p].git_remote =
                     (IF call[p].remote_run.exc \in GitFailures
                      THEN None ELSE RemoteUrl)
                /\ call[p].git_branch =
                     (IF call[p].branch_run.exc \in GitFailures
                      THEN None ELSE BranchName)
          /\ pc[p] = "failed" => fs0[Dir(p)] \in DamagedDirs
          /\ (pc[p] = "done" /\ call[p].create_dirs) =>
                /\ call[p].result = "continue"
                /\ IsJson(fs[Dir(p)].metadata)
                /\ fs[Dir(p)].metadata.doc.git_remote \in {None, RemoteUrl}
                /\ fs[Dir(p)].metadata.doc.git_branch \in {None, BranchName}
                /\ IsJson(fs[Dir(p)].index)
                /\ CountSession(fs[Dir(p)].index.doc.sessions,
                                Get(call[p].context, "session_id",
                                    UnknownSession)) >= 1)
  /\ [][\A p \in Procs :
          /\ (pc[p] = "meta_load" /\ pc'[p] = "meta_open") =>
                /\ call'[p].metadata.git_remote = call[p].git_remote
                /\ call'[p].metadata.git_branch = call[p].git_branch
          /\ (pc[p] = "meta_dump" /\ pc'[p] = "index_load") =>
                fs'[Dir(p)].metadata = Json(call[p].metadata)]_vars

\* the root query failed (the root is the working directory inside the
\* repository), the remote query failed, the branch query answered
C11_Witness ==
  \E p \in Procs :
    /\ pc[p] = "done" /\ call[p].create_dirs /\ call[p].use_git_root
    /\ call[p].project_root = RepoSub
    /\ call[p].result = "continue"
    /\ IsJson(fs[Dir(p)].metadata)
    /\ fs[Dir(p)].metadata.doc.git_remote = None
    /\ fs[Dir(p)].metadata.doc.git_branch = BranchName
    /\ IsJson(fs[Dir(p)].index)
    /\ Len(fs[Dir(p)].index.doc.sessions) >= 1

\* C15: every started invocation eventually returns "continue" or fails
\* with a persistence error, also when each of the three queries runs into
\* its timeout: the timeout ends the query, and the remaining steps run.
C15_EveryInvocationFinishes ==
  \A p \in Procs : (pc[p] # "idle") ~> (pc[p] \in {"done", "failed"})

\* all three queries of one invocation timed out, and it went on to create
\* the directory and is about to update metadata.json
C15_Witness ==
  \E p \in Procs :
    /\ pc[p] = "meta_load" /\ call[p].use_git_root
    /\ call[p].git_run.exc = "TimeoutExpired"
    /\ call[p].remote_run.exc = "TimeoutExpired"
    /\ call[p].branch_run.exc = "TimeoutExpired"
    /\ call[p].git_remote = None /\ call[p].git_branch = None
    /\ fs[Dir(p)].sessions
    /\ call[p].result = "none"

\* how often record e occurs in a list
Occurrences(sessions, e) ==
  Cardinality({i \in 1..Len(sessions) : sessions[i] = e})
\* every record of list a occurs in list b at least as often
AllKept(a, b) ==
  \A i \in 1..Len(a) : Occurrences(a, a[i]) <= Occurrences(b, a[i])

\* C12 as stated: every write of index.json contains every entry the file
\* held immediately before that write (before its open), in every
\* interleaving.
C12_AsStated ==
  [][\A p \in Procs :
       (pc[p] = "index_dump" /\ pc'[p] = "annotate" /\ IsJson(call[p].before)) =>
          /\ IsJson(fs'[Dir(p)].index)
          /\ AllKept(call[p].before.doc.sessions,
                     fs'[Dir(p)].index.doc.sessions)]_vars

\* C12: in every interleaving, the list an invocation builds holds every
\* entry index.json held when that invocation read it and one entry more,
\* and its write puts exactly that list in the file (or, landing on a longer
\* document written meanwhile, leaves text that does not parse).
C12_WriteKeepsWhatWasRead ==
  [][\A p \in Procs :
       /\ (pc[p] = "index_load" /\ pc'[p] = "index_open"
             /\ IsJson(fs[Dir(p)].index)) =>
            /\ AllKept(fs[Dir(p)].index.doc.sessions, call'[p].index.sessions)
            /\ Len(call'[p].index.sessions) =
                 Len(fs[Dir(p)].index.doc.sessions) + 1
       /\ (pc[p] = "index_dump" /\ pc'[p] = "annotate") =>
            \/ fs'[Dir(p)].index = Json(call[p].index)
            \/ fs'[Dir(p)].index.kind = "mixed"]_vars

\* an invocation that read one entry has written two
C12_Witness ==
  \E p \in Procs :
    /\ pc[p] = "annotate" /\ call[p].create_dirs
    /\ IsJson(fs[Dir(p)].index)
    /\ Len(fs[Dir(p)].index.doc.sessions) >= 2

\* C13 as stated: a write of metadata.json over a document that has a
\* first_seen keeps that first_seen, in every interleaving.
C13_AsStated ==
  [][\A p \in Procs :
       (pc[p] = "meta_dump" /\ pc'[p] = "index_load" /\ IsJson(call[p].before)) =>
          /\ IsJson(fs'[Dir(p)].metadata)
          /\ fs'[Dir(p)].metadata.doc.first_seen =
               call[p].before.doc.first_seen]_vars

\* C13: in every interleaving, an invocation that reads an existing
\* metadata.json builds its record with the first_seen it read, and its
\* write puts exactly that record in the file (or, landing on a longer
\* document written meanwhile, leaves text that does not parse).
C13_FirstSeenReadIsWrittenBack ==
  [][\A p \in Procs :
       /\ (pc[p] = "meta_load" /\ pc'[p] = "meta_open"
             /\ IsJson(fs[Dir(p)].metadata)) =>
            call'[p].metadata.first_seen = fs[Dir(p)].metadata.doc.first_seen
       /\ (pc[p] = "meta_dump" /\ pc'[p] = "index_load") =>
            \/ fs'[Dir(p)].metadata = Json(call[p].metadata)
            \/ fs'[Dir(p)].metadata.kind = "mixed"]_vars

\* an invocation is about to write, over a document it read, a record with
\* the same first_seen and another last_accessed
C13_Witness ==
  \E p \in Procs :
    /\ pc[p] = "meta_dump"
    /\ IsJson(call[p].before)
    /\ call[p].metadata.first_seen = call[p].before.doc.first_seen
    /\ call[p].metadata.last_accessed # call[p].before.doc.last_accessed

\* create_dirs invocations for directory d that have written index.json and
\* not yet returned
Annotating(d) ==
  Cardinality({p \in Procs : pc[p] = "annotate" /\ call[p].create_dirs
                               /\ Dir(p) = d})

\* C14: no lock orders the read-modify-write of index.json: an invocation
\* at its read, open or write can take that step whatever the other
\* invocations are at; the file then never holds more entries than
\* invocations have written it, and it can hold fewer than have returned
\* "continue" (the witness: two returned, one entry).
C14_NoLockOnIndex ==
  /\ \A p \in Procs :
       /\ pc[p] = "index_load" =>
             ENABLED (\E t \in Times \cup {NoTime} : IndexLoad(p, t))
       /\ pc[p] = "index_open" => ENABLED IndexOpen(p)
       /\ pc[p] = "index_dump" => ENABLED IndexDump(p)
  /\ \A d \in DirNames :
       IsJson(fs[d].index) =>
         /\ Len(fs[d].index.doc.sessions) >= 1
         /\ Len(fs[d].index.doc.sessions) <= ReturnedCount(d) + Annotating(d)

\* two invocations for the same project have both returned "continue", and
\* index.json holds one entry
C14_Witness ==
  \E p, q \in Procs :
    /\ p # q
    /\ pc[p] = "done" /\ pc[q] = "done"
    /\ call[p].create_dirs /\ call[q].create_dirs
    /\ call[p].result = "continue" /\ call[q].result = "continue"
    /\ call[p].project_root = call[q].project_root
    /\ ReturnedCount(Dir(p)) = 2
    /\ IsJson(fs[Dir(p)].index)
    /\ Len(fs[Dir(p)].index.doc.sessions) = 1

\* C16: in every interleaving, a step of an invocation changes nothing
\* under storage_base but the directory named for its own project root:
\* every other project's sessions directory, metadata.json and index.json
\* stay as they were.
C16_OnlyOwnDirectoryChanges ==
  [][\A p \in Procs :
       pc'[p] # pc[p] =>
         \A d \in DirNames :
           d # call[p].project_dir_name => fs'[d] = fs[d]]_vars

\* two overlapping invocations for projects with different directory names
\* have each written their own metadata.json
C16_Witness ==
  \E p, q \in Procs :
    /\ call[p].project_dir_name # call[q].project_dir_name
    /\ pc[p] \in {"index_load", "index_open", "index_dump", "annotate"}
    /\ pc[q] \in {"index_load", "index_open", "index_dump", "annotate"}
    /\ IsJson(fs[call[p].project_dir_name].metadata)
    /\ IsJson(fs[call[q].project_dir_name].metadata)
    /\ fs[call[p].project_dir_name].metadata.doc.full_path =
         PathStr(call[p].project_root)
    /\ fs[call[q].project_dir_name].metadata.doc.full_path =
         PathStr(call[q].project_root)

\* C17 as stated: with concurrent writers of one document, no invocation
\* reads an empty, truncated or mixed document (so none fails on storage
\* that was readable at first), and when all have finished each file holds
\* a complete document.
C17_AsStated ==
  /\ \A p \in Procs : pc[p] = "failed" => fs0[Dir(p)] \in DamagedDirs
  /\ Settled =>
       \A d \in DirNames :
         fs0[d] = FreshDir =>
           /\ fs[d].metadata.kind \in {"absent", "json"}
           /\ fs[d].index.kind \in {"absent", "json"}

\* C18: in sequential invocations the metadata upsert sets full_path to the
\* root's text and purpose to the context's "purpose" (or "Amplifier CLI
\* session" without one), whatever was stored, and leaves a stored slug as
\* it was; so repeating an invocation with the same root and context leaves
\* full_path, slug and purpose identical after every call.
C18_UpsertIdempotent ==
  /\ [](\A p \in Procs :
          /\ pc[p] \in {"meta_open", "meta_dump"} =>
                /\ call[p].metadata.full_path = PathStr(call[p].project_root)
                /\ call[p].metadata.purpose =
                     (IF "purpose" \in DOMAIN call[p].context
                      THEN call[p].context.purpose
                      ELSE "Amplifier CLI session")
          /\ (pc[p] = "done" /\ call[p].create_dirs) =>
                /\ IsJson(fs[Dir(p)].metadata)
                /\ fs[Dir(p)].metadata.doc.full_path =
                     call[p].context.project_root
                /\ fs[Dir(p)].metadata.doc.purpose =
                     (IF "purpose" \in DOMAIN call[p].context
                      THEN call[p].context.purpose
                      ELSE "Amplifier CLI session"))
  /\ [][\A p \in Procs :
          (pc[p] = "meta_dump" /\ pc'[p] = "index_load") =>
             /\ fs'[Dir(p)].metadata = Json(call[p].metadata)
             /\ IsJson(call[p].before) =>
                  /\ fs'[Dir(p)].metadata.doc.slug = call[p].before.doc.slug
                  /\ (/\ call[p].before.doc.full_path = call[p].metadata.full_path
                      /\ call[p].before.doc.purpose = call[p].metadata.purpose) =>
                        \A k \in {"full_path", "slug", "purpose", "first_seen"} :
                          fs'[Dir(p)].metadata.doc[k] = call[p].before.doc[k]]_vars

\* a repeated invocation (same root, same purpose "dev") is about to write,
\* over the record of the earlier one, a record that differs in
\* last_accessed only
C18_Witness ==
  \E p \in Procs :
    /\ pc[p] = "meta_dump"
    /\ IsJson(call[p].before)
    /\ call[p].before.doc.purpose = "dev"
    /\ call[p].metadata.purpose = "dev"
    /\ call[p].before.doc.full_path = call[p].metadata.full_path
    /\ call[p].before.doc.slug = call[p].metadata.slug
    /\ call[p].before.doc.last_accessed # call[p].metadata.last_accessed

\* C19: within one create_dirs invocation the steps are ordered: the
\* storage directory exists before metadata.json is written; metadata.json
\* holds this invocation's record before index.json is read or written; and
\* the four output keys are in the context only once both documents are
\* written (without create_dirs, only at the end).
C19_StepsOrdered ==
  \A p \in Procs :
    /\ (call[p].create_dirs /\ pc[p] \in {"meta_load", "meta_open", "meta_dump"}) =>
          /\ fs[Dir(p)].sessions
          /\ call[p].index = EmptyDict
          /\ IsJson(fs[Dir(p)].index) =>
                Len(fs[Dir(p)].index.doc.sessions) <= ReturnedCount(Dir(p))
    /\ (call[p].create_dirs
          /\ pc[p] \in {"index_load", "index_open", "index_dump", "annotate", "done"}) =>
          /\ fs[Dir(p)].sessions
          /\ IsJson(fs[Dir(p)].metadata)
          /\ fs[Dir(p)].metadata.doc.full_path = PathStr(call[p].project_root)
          /\ fs[Dir(p)].metadata.doc.last_accessed =
               IsoFormat(stamped[Dir(p)].last)
    /\ (OutputKeys \cap DOMAIN call[p].context # {}) =>
          /\ pc[p] = "done"
          /\ OutputKeys \subseteq DOMAIN call[p].context
          /\ call[p].create_dirs =>
                /\ IsJson(fs[Dir(p)].metadata)
                /\ IsJson(fs[Dir(p)].index)
                /\ CountSession(fs[Dir(p)].index.doc.sessions,
                                Get(call[p].context, "session_id",
                                    UnknownSession)) >= 1

\* an invocation has written metadata.json and index.json in a directory
\* it created, and has not yet written the output keys
C19_Witness ==
  \E p \in Procs :
    /\ pc[p] = "annotate" /\ call[p].create_dirs
    /\ fs0[Dir(p)] = FreshDir
    /\ fs[Dir(p)].sessions
    /\ IsJson(fs[Dir(p)].metadata)
    /\ IsJson(fs[Dir(p)].index)
    /\ OutputKeys \cap DOMAIN call[p].context = {}

\* C20: the re-sort after the append is stable: the entries already in the
\* list keep their order (the result is the stored list with the new entry
\* put in at one place), every entry before the new one has a timestamp
\* greater than or equal to its timestamp, and every entry after it a
\* strictly smaller one, so the new entry comes after the stored entries
\* with the same timestamp.
C20_SortIsStable ==
  sort_pc = "return" =>
    LET n == Len(sort_sessions)
    IN  /\ Len(sort_result) = n + 1
        /\ \E k \in 1..(n + 1) :
             /\ sort_result[k] = sort_record
             /\ \A i \in 1..n :
                  IF i < k
                  THEN /\ sort_result[i] = sort_sessions[i]
                       /\ ~StrLess(sort_sessions[i].timestamp,
                                   sort_record.timestamp)
                  ELSE /\ sort_result[i + 1] = sort_sessions[i]
                       /\ StrLess(sort_sessions[i].timestamp,
                                  sort_record.timestamp)

\* two stored entries and the new one have the same timestamp, and the new
\* one comes out third
C20_Witness ==
  /\ sort_pc = "return"
  /\ Len(sort_sessions) >= 2
  /\ sort_sessions[1].timestamp = sort_record.timestamp
  /\ sort_sessions[2].timestamp = sort_record.timestamp
  /\ sort_result[1] = sort_sessions[1]
  /\ sort_result[2] = sort_sessions[2]
  /\ sort_result[3] = sort_record

\* C21: on_session_start only annotates the context: the step that writes
\* the output keys adds exactly storage_path, project_root, project_slug
\* and project_dir_name and leaves every other key (session_id,
\* message_count, purpose, the unrecognised key user) with its value; no
\* other step of a started invocation touches the context.
C21_ContextOnlyAnnotated ==
  [][\A p \in Procs :
       (pc[p] \in Running /\ pc'[p] \in Running) =>
          IF pc[p] = "annotate" /\ pc'[p] = "done"
          THEN /\ DOMAIN call'[p].context =
                    DOMAIN call[p].context \cup OutputKeys
               /\ \A k \in DOMAIN call[p].context \ OutputKeys :
                    call'[p].context[k] = call[p].context[k]
          ELSE call'[p].context = call[p].context]_vars

\* an invocation has returned with the caller's four keys as they were and
\* the four output keys added
C21_Witness ==
  \E p \in Procs :
    /\ pc[p] = "done" /\ call[p].create_dirs
    /\ DOMAIN call[p].context =
         {"session_id", "message_count", "purpose", "user"} \cup OutputKeys
    /\ call[p].context.session_id = "session-0"
    /\ call[p].context.message_count = 3
    /\ call[p].context.purpose = "dev"
    /\ call[p].context.user = "test-user"

\* C22: while a project's index.json is the unparseable file it was at
\* first, every create_dirs invocation on that project gets as far as the
\* load of index.json and fails there with an error: by then it has written
\* its record to metadata.json (full_path and the last_accessed it took),
\* index.json is left as it was, no entry is added, and none of the four
\* output keys is in the context.
C22_MalformedIndexFailsAfterMetadata ==
  \A d \in DirNames :
    fs0[d].index.kind = "malformed" =>
      /\ fs[d].index = fs0[d].index
      /\ ReturnedCount(d) = 0
      /\ \A p \in Procs :
           (pc[p] # "idle" /\ call[p].create_dirs /\ Dir(p) = d) =>
              /\ pc[p] \in {"mkdir", "meta_load", "meta_open", "meta_dump",
                            "index_load", "failed"}
              /\ call[p].index = EmptyDict
              /\ call[p].result # "continue"
              /\ OutputKeys \cap DOMAIN call[p].context = {}
              /\ pc[p] = "failed" =>
                   /\ call[p].result = "JSONDecodeError"
                   /\ IsJson(fs[d].metadata)
                   /\ fs[d].metadata.doc.full_path =
                        PathStr(call[p].project_root)
                   /\ fs[d].metadata.doc.last_accessed =
                        IsoFormat(stamped[d].last)

\* an invocation has failed at the unparseable index.json after writing to
\* metadata.json, which did not exist at first, a record whose
\* last_accessed is another clock reading than its first_seen
C22_Witness ==
  \E p \in Procs :
    /\ pc[p] = "failed"
    /\ call[p].result = "JSONDecodeError"
    /\ fs[Dir(p)].index = Malformed
    /\ fs0[Dir(p)].metadata = Absent
    /\ IsJson(fs[Dir(p)].metadata)
    /\ fs[Dir(p)].metadata.doc.first_seen # fs[Dir(p)].metadata.doc.last_accessed
    /\ stamped[Dir(p)].first # stamped[Dir(p)].last
    /\ OutputKeys \cap DOMAIN call[p].context = {}

\* the name of the directory is the slug, a hyphen and six more characters
NamedBySlug(d, slug_text) ==
  d = slug_text \o <<Hyphen>> \o SubSeq(d, Len(d) - 5, Len(d))

\* C23: in sequential invocations on a project whose metadata.json did not
\* exist at first, every record built for and every document written to
\* metadata.json has as slug the slug part of the name of the directory it
\* is in (name = slug, "-", six-character fingerprint), also when
\* invocations for two different roots share the directory.
C23_StoredSlugIsDirSlug ==
  /\ \A d \in DirNames :
       (~Exists(fs0[d].metadata) /\ IsJson(fs[d].metadata)) =>
          NamedBySlug(d, fs[d].metadata.doc.slug)
  /\ \A p \in Procs :
       (pc[p] \in {"meta_open", "meta_dump"}
          /\ ~Exists(fs0[Dir(p)].metadata)) =>
          NamedBySlug(Dir(p), call[p].metadata.slug)

\* an invocation for /d3630/My App is about to write its record over the
\* one an invocation for /d2328/My App left in the directory they share
C23_Witness ==
  \E p \in Procs :
    /\ pc[p] = "meta_dump"
    /\ ~Exists(fs0[Dir(p)].metadata)
    /\ IsJson(call[p].before)
    /\ call[p].before.doc.full_path = PathStr(RepoTop)
    /\ call[p].metadata.full_path = PathStr(TwinDir)
    /\ call[p].metadata.slug = call[p].before.doc.slug
    /\ NamedBySlug(Dir(p), call[p].metadata.slug)

\* first_seen is not after last_accessed, as rendered text and as time
FirstBeforeLast(doc) ==
  /\ ~StrLess(doc.last_accessed, doc.first_seen)
  /\ TimeLeq(ParseIso(doc.first_seen), ParseIso(doc.last_accessed))

\* C24: with a clock that never goes backwards and storage that is empty at
\* first, every record built for and every document written to a
\* metadata.json has first_seen <= last_accessed, however the invocations
\* overlap.
C24_FirstSeenNotAfterLastAccessed ==
  /\ \A d \in DirNames :
       IsJson(fs[d].metadata) => FirstBeforeLast(fs[d].metadata.doc)
  /\ \A p \in Procs :
       pc[p] \in {"meta_open", "meta_dump"} => FirstBeforeLast(call[p].metadata)

\* two invocations overlap in one directory, both past their update of
\* metadata.json, and the document left has a first_seen strictly earlier
\* than its last_accessed
C24_Witness ==
  \E p, q \in Procs :
    /\ p # q /\ Dir(p) = Dir(q)
    /\ pc[p] = "index_load" /\ pc[q] = "index_load"
    /\ IsJson(fs[Dir(p)].metadata)
    /\ fs[Dir(p)].metadata.doc.first_seen = IsoFormat(Epoch)
    /\ StrLess(fs[Dir(p)].metadata.doc.first_seen,
               fs[Dir(p)].metadata.doc.last_accessed)
    /\ clock = ParseIso(fs[Dir(p)].metadata.doc.last_accessed)

====
